---- MODULE Spec2Model ----
(***************************************************************************)
(* Model of DeltaTransformer (metro-bundler/src/DeltaBundler/               *)
(* DeltaTransformer.js): the getDelta() serialization over                  *)
(* _currentBuildPromise, one _getDelta() computation (diff fetch, parallel  *)
(* module transforms, tombstones, prepend/append on reset, inverse          *)
(* dependencies) and the 'change' pass-through.                             *)
(*                                                                         *)
(* JavaScript scheduling: a job runs to completion; the reactions of a     *)
(* promise are queued in the order they were registered when the promise   *)
(* settles, and the job queue is drained before any other event is         *)
(* handled.  `microtasks` is the queue of getDelta() continuations.        *)
(***************************************************************************)
EXTENDS Integers, Sequences, FiniteSets, TLC

VARIABLES
    cfg,                  \* constructor arguments: options and bundleOptions
    currentBuildPromise,  \* this._currentBuildPromise: 0 is null, k is computation k
    calls,                \* the getDelta() invocations, in arrival order
    comp,                 \* the _getDelta() promises; comp[k] is the one call k makes
    microtasks,           \* queued continuations of getDelta() calls (call ids)
    fetchCount,           \* number of this._deltaCalculator.getDelta() invocations so far
    listening,            \* _onFileChange is registered on the calculator's 'change'
    calculatorEnded,      \* this._deltaCalculator.end() has been called
    signals,              \* 'change' events fired by the calculator so far
    emitted               \* argument lists of the 'change' events emitted by this

vars == <<cfg, currentBuildPromise, calls, comp, microtasks, fetchCount,
          listening, calculatorEnded, signals, emitted>>

(***************************************************************************)
(* Bounds                                                                  *)
(***************************************************************************)
MaxCalls == 5        \* getDelta() calls issued under Spec
DeltaCalls == 2      \* getDelta() calls issued under SpecDelta
MaxChanges == 1      \* 'change' events the calculator fires
MaxRunBefore == 2    \* length of runBeforeMainModule
MaxDependents == 2   \* dependents of a path in the inverse dependencies
MaxPolyfills == 2    \* length of each of the two polyfill lists

(***************************************************************************)
(* The module universe of the graph provider                               *)
(***************************************************************************)
ScriptPaths == {"/a.js", "/e.js"}
AssetPaths == {"/b.png"}
Paths == ScriptPaths \cup AssetPaths

\* A Module is identified by its absolute path (module.path).
isAsset(module) == module \in AssetPaths

\* module.getName()
getName(module) ==
    CASE module = "/a.js" -> "a"
      [] module = "/e.js" -> "e"
      [] module = "/b.png" -> "b.png"
      [] OTHER -> module

\* this._getModuleId = this._bundler.getGetModuleIdFn(): a stable id per path.
getModuleId(path) ==
    CASE path = "/require.js" -> 0
      [] path = "/polyfills/g.js" -> 1
      [] path = "/polyfills/p.js" -> 2
      [] path = "/polyfills/g2.js" -> 3
      [] path = "/polyfills/p2.js" -> 4
      [] path = "/a.js" -> 10
      [] path = "/b.png" -> 11
      [] path = "/e.js" -> 12
      [] OTHER -> 99

\* this._deltaCalculator.getModulesByName(): "x" names no module.
RunNames == {"a", "b.png", "e", "x"}
modulesByName(name) ==
    CASE name = "a" -> <<"/a.js">>
      [] name = "b.png" -> <<"/b.png">>
      [] name = "e" -> <<"/e.js">>
      [] OTHER -> <<>>

(***************************************************************************)
(* JavaScript values                                                       *)
(***************************************************************************)
Null == [type |-> "null"]
Undefined == [type |-> "undefined"]
RawMappings == [type |-> "array", items |-> <<<<1, 0, 1, 0>>>>]
SourceMapString == [type |-> "string", text |-> "{version:3}"]
SourceMapObject == [type |-> "object", version |-> 3]
\* what module.read() and resolver.wrapModule() may hand back as `map`
MapShapes == {RawMappings, SourceMapString, SourceMapObject, Undefined}

isArray(v) == v.type = "array"

\* A JavaScript Map is the sequence of its [key, value] entries in insertion order.
MapHas(m, k) == \E i \in 1..Len(m) : m[i][1] = k
MapGet(m, k) == m[CHOOSE i \in 1..Len(m) : m[i][1] = k][2]
MapKeys(m) == [i \in 1..Len(m) |-> m[i][1]]
\* Map.prototype.set: an existing key keeps its place and takes the new value.
MapSet(m, k, v) ==
    IF MapHas(m, k)
    THEN [i \in 1..Len(m) |-> IF m[i][1] = k THEN <<k, v>> ELSE m[i]]
    ELSE Append(m, <<k, v>>)

RECURSIVE NewMapFrom(_, _)
NewMapFrom(m, pairs) ==
    IF pairs = <<>> THEN m
    ELSE NewMapFrom(MapSet(m, pairs[1][1], pairs[1][2]), Tail(pairs))
\* new Map(iterable of [key, value])
NewMap(pairs) == NewMapFrom(<<>>, pairs)

\* String(n), JSON.stringify(n) and the property key of a number n: its decimal
\* digits.  A JavaScript string is the sequence of its pieces.
Digit(d) ==
    CASE d = 0 -> "0" [] d = 1 -> "1" [] d = 2 -> "2" [] d = 3 -> "3" [] d = 4 -> "4"
      [] d = 5 -> "5" [] d = 6 -> "6" [] d = 7 -> "7" [] d = 8 -> "8" [] OTHER -> "9"
RECURSIVE ToDecimal(_)
ToDecimal(n) == IF n < 10 THEN <<Digit(n)>> ELSE Append(ToDecimal(n \div 10), Digit(n % 10))

SeqMap(Op(_), s) == [i \in 1..Len(s) |-> Op(s[i])]
RECURSIVE SeqConcat(_)
SeqConcat(ss) == IF ss = <<>> THEN <<>> ELSE Head(ss) \o SeqConcat(Tail(ss))
Range(s) == {s[i] : i \in 1..Len(s)}
RECURSIVE SetToSeq(_)
\* ascending order of a set of numbers
SetToSeq(S) ==
    IF S = {} THEN <<>>
    ELSE LET x == CHOOSE y \in S : \A z \in S : y <= z
         IN <<x>> \o SetToSeq(S \ {x})
SeqsUpTo(S, n) == UNION {[1..k -> S] : k \in 0..n}
DistinctSeqsUpTo(S, n) ==
    {s \in SeqsUpTo(S, n) : \A i, j \in 1..Len(s) : i # j => s[i] # s[j]}

(***************************************************************************)
(* Module Transform Pipeline: _getMetadata, _transformModule,              *)
(* _transformModules                                                       *)
(***************************************************************************)
\* The maps the external read step can produce for a module (_getMetadata):
\* an asset has `map: undefined`, a script whatever module.read() returns.
MetadataMaps(module) == IF isAsset(module) THEN {Undefined} ELSE MapShapes

\* metadata.source: '' for an asset
MetadataSource(module) == IF isAsset(module) THEN <<>> ELSE <<"source of", module>>

\* wrapped.code: resolver.wrapModule(...).code or resolver.resolveRequires(...)
WrappedCode(module, wrapModules) ==
    IF wrapModules THEN <<"__d(", module, ")">> ELSE <<"resolved requires of", module>>

\* (variant: the map handed on as it came)
FilterMapPassThrough(wrappedMap) == wrappedMap
\* Array.isArray(wrapped.map) ? wrapped.map : undefined
FilterMap(wrappedMap) == IF isArray(wrappedMap) THEN wrappedMap ELSE Undefined

\* (variant: the entry named by the module's path)
TransformOutputNamedByPath(module, wrappedMap, wrapModules) ==
    << getModuleId(module),
       [code |-> WrappedCode(module, wrapModules),
        map |-> FilterMap(wrappedMap),
        name |-> <<module>>,
        source |-> MetadataSource(module),
        path |-> <<module>>] >>
\* the [id, entry] pair _transformModule returns
TransformOutput(module, wrappedMap, wrapModules) ==
    << getModuleId(module),
       [code |-> WrappedCode(module, wrapModules),
        map |-> FilterMap(wrappedMap),
        name |-> <<getName(module)>>,
        source |-> MetadataSource(module),
        path |-> <<module>>] >>

\* One running _transformModule: "read" awaits [getName(), _getMetadata()],
\* "wrap" awaits resolver.wrapModule(), then "done" (out is its pair) or "failed".
NewTransform(module) == [module |-> module, st |-> "read", out |-> <<>>]
StartTransforms(modules) == SeqMap(NewTransform, modules)

TransformsRunning(batch) == {i \in 1..Len(batch) : batch[i].st \in {"read", "wrap"}}
AnyFailed(batch) == \E i \in 1..Len(batch) : batch[i].st = "failed"
DoneOutputs(batch) ==
    SeqConcat([i \in 1..Len(batch) |->
                 IF batch[i].st = "done" THEN <<batch[i].out>> ELSE <<>>])

\* (variant: failures are skipped and the entries of the others collected)
PromiseAllSettledOnes(batch) ==
    IF TransformsRunning(batch) = {} THEN "resolved" ELSE "pending"
\* Promise.all over the batch: rejected with the first failure, resolved when
\* every transform is done, pending otherwise.
PromiseAll(batch) ==
    IF AnyFailed(batch) THEN "rejected"
    ELSE IF TransformsRunning(batch) = {} THEN "resolved"
    ELSE "pending"

(***************************************************************************)
(* Preamble/postamble: _getPrepend, _getAppend                             *)
(***************************************************************************)
\* (variant: the names of polyfillModuleNames first)
PolyfillModuleNamesGlobalFirst(c) == c.polyfillModuleNames \o c.getPolyfills
\* this._getPolyfills({platform}).concat(this._polyfillModuleNames)
PolyfillModuleNames(c) == c.getPolyfills \o c.polyfillModuleNames

\* moduleSystemDeps.concat(polyfillModuleNames.map(createPolyfill)): the
\* polyfill module of a name has that name as its file.
PrependModules(c) == c.moduleSystemDeps \o PolyfillModuleNames(c)

\* runBeforeMainModule.map(name => modulesByName.get(name))
\*   .concat(entryPointModule).filter(Boolean)
AppendModules(c, entryPointModule) ==
    SeqConcat(SeqMap(modulesByName, c.runBeforeMainModule)) \o <<entryPointModule>>

RequireEntry(moduleId) ==
    << moduleId,
       [code |-> <<";require(">> \o ToDecimal(moduleId) \o <<");">>,
        map |-> Null,
        name |-> <<"require-">> \o ToDecimal(moduleId),
        source |-> <<";require(">> \o ToDecimal(moduleId) \o <<");">>,
        path |-> <<"require-">> \o ToDecimal(moduleId) \o <<".js">>] >>

\* (variant: the pairs as they come, a repeated id kept)
GetAppendKeepingRepeats(c, entryPointModule) ==
    SeqMap(RequireEntry, SeqMap(getModuleId, AppendModules(c, entryPointModule)))
\* new Map(modules.map(this._getModuleId).map(moduleId => [moduleId, {...}]))
GetAppend(c, entryPointModule) ==
    NewMap(SeqMap(RequireEntry, SeqMap(getModuleId, AppendModules(c, entryPointModule))))

\* resolver.getDependencyGraph().getAbsolutePath(this._bundleOptions.entryFile)
getAbsolutePath(entryFile) == entryFile

(***************************************************************************)
(* _getInverseDependencies                                                 *)
(***************************************************************************)
\* inverseDependencies is the sequence of [path, dependents] pairs of the
\* calculator's Map<string, Set<string>>, each Set the sequence of its
\* elements in iteration order.  The output object (Object.create(null)) is
\* the set of its [key, value] properties, the key of a number being its
\* decimal string.
\* output[key] = value
PropertySet(output, key, value) == {p \in output : p[1] # key} \cup {<<key, value>>}

RECURSIVE InverseInto(_, _)
InverseInto(output, inverse) ==
    IF inverse = <<>> THEN output
    ELSE InverseInto(PropertySet(output, ToDecimal(getModuleId(inverse[1][1])),
                                 SeqMap(getModuleId, inverse[1][2])),
                     Tail(inverse))
\* (variant: the ids of the dependents in ascending order)
GetInverseDependenciesSorted(inverse) ==
    {<<ToDecimal(getModuleId(inverse[i][1])),
       SetToSeq(Range(SeqMap(getModuleId, inverse[i][2])))>> : i \in 1..Len(inverse)}
GetInverseDependencies(inverse) == InverseInto({}, inverse)

(***************************************************************************)
(* One _getDelta() computation                                             *)
(***************************************************************************)
NoDiff == [modified |-> <<>>, deleted |-> <<>>, reset |-> FALSE, inverse |-> <<>>]
NoResponse == [none |-> TRUE]

\* stage: "none" (not started), "diff" (awaiting this._deltaCalculator.getDelta()),
\* "transform" (awaiting _transformModules of the modified modules), "prepend"
\* (awaiting _transformModules in _getPrepend), "append" (awaiting
\* this._bundler.getModuleForPath in _getAppend), "resolved", "rejected".
\* this._bundler.getResolver() hands back the resolver the calculator was
\* created with; awaiting it suspends on nothing external.
NoComp ==
    [stage |-> "none", diff |-> NoDiff, batch |-> <<>>, delta |-> <<>>, pre |-> <<>>,
     ranPrepend |-> FALSE, ranAppend |-> FALSE, response |-> NoResponse]

Settled == {"resolved", "rejected"}
Pending == {"diff", "transform", "prepend", "append"}

\* (variant: the preamble assembled for every diff)
NeedsPrependAlways(diff) == TRUE
\* reset ? await this._getPrepend(...) : new Map()
NeedsPrepend(diff) == diff.reset

\* reset ? await this._getAppend(...) : new Map()
NeedsAppend(diff) == diff.reset

\* (variant: an id that already has an entry keeps it)
RECURSIVE TombstonesKeepEntries(_, _)
TombstonesKeepEntries(delta, deleted) ==
    IF deleted = <<>> THEN delta
    ELSE TombstonesKeepEntries(
             IF MapHas(delta, getModuleId(Head(deleted))) THEN delta
             ELSE MapSet(delta, getModuleId(Head(deleted)), Null),
             Tail(deleted))
\* deleted.forEach(id => modifiedDelta.set(this._getModuleId({path: id}), null))
RECURSIVE Tombstones(_, _)
Tombstones(delta, deleted) ==
    IF deleted = <<>> THEN delta
    ELSE Tombstones(MapSet(delta, getModuleId(Head(deleted)), Null), Tail(deleted))

\* return {pre, post, delta, inverseDependencies, reset}
Resolve(rec, post) ==
    [rec EXCEPT !.stage = "resolved",
                !.response = [pre |-> rec.pre,
                              post |-> post,
                              delta |-> rec.delta,
                              inverseDependencies |-> GetInverseDependencies(rec.diff.inverse),
                              reset |-> rec.diff.reset]]

\* lines 176-194, entered with prependSources in rec.pre
AfterPrepend(rec) ==
    IF NeedsAppend(rec.diff)
    THEN [rec EXCEPT !.stage = "append", !.ranAppend = TRUE]
    ELSE Resolve(rec, <<>>)

\* _getPrepend: the batch of the module system scripts and the polyfills
EnterPrepend(rec, c) ==
    LET batch == StartTransforms(PrependModules(c))
    IN  IF PromiseAll(batch) = "resolved"
        THEN AfterPrepend([rec EXCEPT !.ranPrepend = TRUE, !.batch = batch,
                                      !.pre = NewMap(DoneOutputs(batch))])
        ELSE [rec EXCEPT !.stage = "prepend", !.ranPrepend = TRUE, !.batch = batch]

\* lines 164-172, entered when the transforms of the modified modules have joined
AfterModified(rec, c) ==
    LET r == [rec EXCEPT !.delta = Tombstones(NewMap(DoneOutputs(rec.batch)),
                                              rec.diff.deleted)]
    IN  IF NeedsPrepend(r.diff)
        THEN EnterPrepend(r, c)
        ELSE AfterPrepend([r EXCEPT !.pre = <<>>])

\* lines 150-162, entered when the calculator's diff has arrived
AfterDiff(rec, diff, c) ==
    LET batch == StartTransforms(diff.modified)
        r == [rec EXCEPT !.diff = diff, !.batch = batch]
    IN  IF PromiseAll(batch) = "resolved"
        THEN AfterModified(r, c)
        ELSE [r EXCEPT !.stage = "transform"]

\* the transforms of a batch that are still running
IsRunning(t) == t.st \in {"read", "wrap"}
StillRunning(batch) == SelectSeq(batch, IsRunning)

\* A transform of the running batch has settled: what `await Promise.all(...)`
\* in _transformModules makes of it.  Nothing awaits the transforms of a
\* computation that has already rejected: of those only the running ones are kept.
AfterTransform(rec, batch, c) ==
    LET r == [rec EXCEPT !.batch = batch]
    IN  IF rec.stage \notin {"transform", "prepend"}
        THEN [rec EXCEPT !.batch = StillRunning(batch)]
        ELSE IF PromiseAll(batch) = "rejected" THEN [r EXCEPT !.stage = "rejected"]
        ELSE IF PromiseAll(batch) = "pending" THEN r
        ELSE IF rec.stage = "transform" THEN AfterModified(r, c)
        ELSE AfterPrepend([r EXCEPT !.pre = NewMap(DoneOutputs(batch))])

\* What is left of a settled computation once getDelta() has taken its outcome
\* (result = await this._currentBuildPromise): whether it resolved, and the
\* transforms it left running, of which only the step each is at matters.
Unobserved(t) == [module |-> "", st |-> t.st, out |-> <<>>]
Released(rec) ==
    [NoComp EXCEPT !.stage = rec.stage, !.batch = SeqMap(Unobserved, StillRunning(rec.batch))]

(***************************************************************************)
(* Configurations and diffs the runs draw from                             *)
(***************************************************************************)
\* resolver.getModuleSystemDependencies({dev})
getModuleSystemDependencies == <<"/require.js">>

Config(platformPolyfills, polyfillModuleNames, runBeforeMainModule, wrapModules) ==
    [getPolyfills |-> platformPolyfills,
     polyfillModuleNames |-> polyfillModuleNames,
     moduleSystemDeps |-> getModuleSystemDependencies,
     runBeforeMainModule |-> runBeforeMainModule,
     entryFile |-> "/e.js",
     wrapModules |-> wrapModules]

\* the calculator's inverse dependencies at the time of a diff
InverseMaps == { << <<"/a.js", <<"/e.js", "/b.png">> >>, <<"/e.js", <<>> >> >> }

Diffs(modifiedSeqs, deletedSeqs, resets) ==
    [modified : modifiedSeqs, deleted : deletedSeqs, reset : resets, inverse : InverseMaps]

\* Spec: many calls, one configuration, two diffs
SerialCfgs == {Config(<<>>, <<>>, <<"a">>, TRUE)}
SerialDiffs == Diffs({<<>>, <<"/a.js">>}, {<<>>}, {FALSE}) \cup Diffs({<<>>}, {<<>>}, {TRUE})

\* SpecDelta: few calls; the modified modules are any of a script and an asset
\* in any order, the deleted path none, one of them or another module's
DeltaCfgs == {Config(<<>>, <<>>, <<"a">>, w) : w \in BOOLEAN}
DeltaDiffs ==
    Diffs(DistinctSeqsUpTo({"/a.js", "/b.png"}, 2), {<<>>, <<"/a.js">>, <<"/e.js">>}, BOOLEAN)

(***************************************************************************)
(* State                                                                   *)
(***************************************************************************)
\* pc: "await132" (line 132, awaiting the build found in progress, waitsFor),
\* "await140" (line 140, awaiting its own build), "returned", "thrown" (error
\* is the computation whose failure it throws).  startSeq is the number of its
\* diff fetch among all fetches (0: none); issuedAfterReject records whether a
\* computation had rejected when the call was made.
NewCall(pc, waitsFor, startSeq, afterReject) ==
    [pc |-> pc, waitsFor |-> waitsFor, startSeq |-> startSeq, error |-> 0,
     issuedAfterReject |-> afterReject]

CallIds == 1..Len(calls)
SomeRejected == \E k \in CallIds : comp[k].stage = "rejected"

\* The reactions registered on promise k, in registration order: call k's own
\* await (line 140, registered in the job that created the promise), then the
\* calls that found it in progress (line 132), in arrival order.
Reactions(k) ==
    <<k>> \o SetToSeq({c \in CallIds : calls[c].pc = "await132" /\ calls[c].waitsFor = k})

Init(cfgs) ==
    /\ cfg \in cfgs
    /\ currentBuildPromise = 0
    /\ calls = <<>>
    /\ comp = <<>>
    /\ microtasks = <<>>
    /\ fetchCount = 0
    /\ listening = TRUE
    /\ calculatorEnded = FALSE
    /\ signals = 0
    /\ emitted = <<>>

\* Computation k goes on as rec; when that settles it, its reactions are queued.
SetComp(k, rec) ==
    /\ comp' = [comp EXCEPT ![k] = rec]
    /\ microtasks' = IF rec.stage \in Settled /\ comp[k].stage \notin Settled
                     THEN microtasks \o Reactions(k)
                     ELSE microtasks

events == <<listening, calculatorEnded, signals, emitted>>

(***************************************************************************)
(* getDelta()                                                              *)
(***************************************************************************)
\* this._currentBuildPromise = this._getDelta(): the computation starts with
\* its call of this._deltaCalculator.getDelta() (line 150).
StartedComp == [NoComp EXCEPT !.stage = "diff"]

\* getDelta() called while a build is in progress: suspends at line 132.
CallGetDeltaWait(maxCalls) ==
    /\ Len(calls) < maxCalls
    /\ microtasks = <<>>
    /\ currentBuildPromise # 0
    /\ calls' = Append(calls, NewCall("await132", currentBuildPromise, 0, SomeRejected))
    /\ comp' = Append(comp, NoComp)
    /\ microtasks' = IF comp[currentBuildPromise].stage \in Settled
                     THEN <<Len(calls) + 1>> ELSE <<>>
    /\ UNCHANGED <<cfg, currentBuildPromise, fetchCount, events>>

\* getDelta() called with no build in progress: lines 135-140.
CallGetDeltaStart(maxCalls) ==
    /\ Len(calls) < maxCalls
    /\ microtasks = <<>>
    /\ currentBuildPromise = 0
    /\ calls' = Append(calls, NewCall("await140", 0, fetchCount + 1, SomeRejected))
    /\ comp' = Append(comp, StartedComp)
    /\ currentBuildPromise' = Len(calls) + 1
    /\ fetchCount' = fetchCount + 1
    /\ UNCHANGED <<cfg, microtasks, events>>

\* What the call does when the build it awaited at line 132 has settled: the
\* await throws that build's failure out of getDelta(), or the call goes on
\* to lines 135-140.
AfterAwaitedBuild(c) ==
    IF comp[calls[c].waitsFor].stage = "rejected"
    THEN /\ calls' = [calls EXCEPT ![c].pc = "thrown", ![c].error = calls[c].waitsFor]
         /\ UNCHANGED <<comp, currentBuildPromise, fetchCount>>
    ELSE /\ calls' = [calls EXCEPT ![c].pc = "await140", ![c].startSeq = fetchCount + 1]
         /\ comp' = [comp EXCEPT ![c] = StartedComp]
         /\ currentBuildPromise' = c
         /\ fetchCount' = fetchCount + 1

\* The continuation of a call suspended at line 132.
ResumeAfterPrevious ==
    /\ microtasks # <<>>
    /\ calls[Head(microtasks)].pc = "await132"
    /\ AfterAwaitedBuild(Head(microtasks))
    /\ microtasks' = Tail(microtasks)
    /\ UNCHANGED <<cfg, events>>

\* finally { this._currentBuildPromise = null; }
ClearToken(c) == 0

\* The continuation of a call suspended at line 140: lines 141-145.
ResumeAfterOwn ==
    /\ microtasks # <<>>
    /\ calls[Head(microtasks)].pc = "await140"
    /\ LET c == Head(microtasks)
       IN  /\ currentBuildPromise' = ClearToken(c)
           /\ calls' = IF comp[c].stage = "resolved"
                       THEN [calls EXCEPT ![c].pc = "returned"]
                       ELSE [calls EXCEPT ![c].pc = "thrown", ![c].error = c]
           /\ comp' = [comp EXCEPT ![c] = Released(comp[c])]
    /\ microtasks' = Tail(microtasks)
    /\ UNCHANGED <<cfg, fetchCount, events>>

(***************************************************************************)
(* _getDelta(): the steps of computation k at which something external     *)
(* settles                                                                 *)
(***************************************************************************)
\* this._deltaCalculator.getDelta() resolves with a diff
DiffSettles(diffs) ==
    \E k \in CallIds, diff \in diffs :
        /\ microtasks = <<>>
        /\ comp[k].stage = "diff"
        /\ SetComp(k, AfterDiff(comp[k], diff, cfg))
        /\ UNCHANGED <<cfg, currentBuildPromise, calls, fetchCount, events>>

\* this._deltaCalculator.getDelta() rejects
DiffFails ==
    \E k \in CallIds :
        /\ microtasks = <<>>
        /\ comp[k].stage = "diff"
        /\ SetComp(k, [comp[k] EXCEPT !.stage = "rejected"])
        /\ UNCHANGED <<cfg, currentBuildPromise, calls, fetchCount, events>>

\* Promise.all([module.getName(), this._getMetadata(...)]) resolves for the
\* i-th module of the batch; without wrapModules the transform finishes here.
ReadSettles ==
    \E k \in CallIds :
      \E i \in 1..Len(comp[k].batch) :
        \E map \in MetadataMaps(comp[k].batch[i].module) :
          /\ microtasks = <<>>
          /\ comp[k].batch[i].st = "read"
          /\ LET t == comp[k].batch[i]
                 done == [t EXCEPT !.st = "done",
                                   !.out = TransformOutput(t.module, map, FALSE)]
                 batch == [comp[k].batch EXCEPT
                              ![i] = IF cfg.wrapModules THEN [t EXCEPT !.st = "wrap"] ELSE done]
             IN  SetComp(k, AfterTransform(comp[k], batch, cfg))
          /\ UNCHANGED <<cfg, currentBuildPromise, calls, fetchCount, events>>

\* resolver.wrapModule(...) resolves with {code, map}
WrapSettles ==
    \E k \in CallIds :
      \E i \in 1..Len(comp[k].batch) :
        \E map \in MapShapes :
          /\ microtasks = <<>>
          /\ comp[k].batch[i].st = "wrap"
          /\ LET t == comp[k].batch[i]
                 batch == [comp[k].batch EXCEPT
                              ![i] = [t EXCEPT !.st = "done",
                                               !.out = TransformOutput(t.module, map, TRUE)]]
             IN  SetComp(k, AfterTransform(comp[k], batch, cfg))
          /\ UNCHANGED <<cfg, currentBuildPromise, calls, fetchCount, events>>

\* the read or the wrap of the i-th module of the batch rejects
TransformFails ==
    \E k \in CallIds :
      \E i \in 1..Len(comp[k].batch) :
          /\ microtasks = <<>>
          /\ comp[k].batch[i].st \in {"read", "wrap"}
          /\ LET batch == [comp[k].batch EXCEPT ![i].st = "failed"]
             IN  SetComp(k, AfterTransform(comp[k], batch, cfg))
          /\ UNCHANGED <<cfg, currentBuildPromise, calls, fetchCount, events>>

\* this._bundler.getModuleForPath(absPath) resolves in _getAppend
ModuleForPathSettles ==
    \E k \in CallIds :
        /\ microtasks = <<>>
        /\ comp[k].stage = "append"
        /\ SetComp(k, Resolve(comp[k], GetAppend(cfg, getAbsolutePath(cfg.entryFile))))
        /\ UNCHANGED <<cfg, currentBuildPromise, calls, fetchCount, events>>

\* this._bundler.getModuleForPath(absPath) rejects
ModuleForPathFails ==
    \E k \in CallIds :
        /\ microtasks = <<>>
        /\ comp[k].stage = "append"
        /\ SetComp(k, [comp[k] EXCEPT !.stage = "rejected"])
        /\ UNCHANGED <<cfg, currentBuildPromise, calls, fetchCount, events>>

(***************************************************************************)
(* 'change' pass-through and end()                                         *)
(***************************************************************************)
\* (variant: the event handed on with the calculator's argument)
OnFileChangeWithPayload(emits) == Append(emits, <<"change">>)
\* _onFileChange = () => { this.emit('change'); }: one 'change' with no argument
OnFileChange(emits) == Append(emits, <<>>)

\* the calculator emits 'change': _onFileChange runs if it is registered
FileChange ==
    /\ microtasks = <<>>
    /\ signals < MaxChanges
    /\ signals' = signals + 1
    /\ emitted' = IF listening THEN OnFileChange(emitted) ELSE emitted
    /\ UNCHANGED <<cfg, currentBuildPromise, calls, comp, microtasks, fetchCount,
                   listening, calculatorEnded>>

\* (variant: the listener stays registered)
RemoveListenerKept(registered) == registered
\* this._deltaCalculator.removeListener('change', this._onFileChange)
RemoveListener(registered) == FALSE

\* end(), called once: detaches the listener and ends the calculator
End ==
    /\ microtasks = <<>>
    /\ ~calculatorEnded
    /\ listening' = RemoveListener(listening)
    /\ calculatorEnded' = TRUE
    /\ UNCHANGED <<cfg, currentBuildPromise, calls, comp, microtasks, fetchCount,
                   signals, emitted>>

NextDelta(maxCalls, diffs) ==
    \/ CallGetDeltaWait(maxCalls)
    \/ CallGetDeltaStart(maxCalls)
    \/ ResumeAfterPrevious
    \/ ResumeAfterOwn
    \/ DiffSettles(diffs)
    \/ DiffFails
    \/ ReadSettles
    \/ WrapSettles
    \/ TransformFails
    \/ ModuleForPathSettles
    \/ ModuleForPathFails

Next(maxCalls, diffs) ==
    \/ NextDelta(maxCalls, diffs)
    \/ FileChange
    \/ End

\* the orchestrator under many calls
Spec == Init(SerialCfgs) /\ [][Next(MaxCalls, SerialDiffs)]_vars
\* one computation after another over every diff
SpecDelta == Init(DeltaCfgs) /\ [][NextDelta(DeltaCalls, DeltaDiffs)]_vars

\* _getAppend over every runBeforeMainModule list
AppendCfgs == {Config(<<>>, <<>>, names, TRUE) : names \in SeqsUpTo(RunNames, MaxRunBefore)}
AppendDiffs == Diffs({<<>>}, {<<>>}, BOOLEAN)
SpecAppend == Init(AppendCfgs) /\ [][NextDelta(DeltaCalls, AppendDiffs)]_vars

\* _getPrepend over the polyfill lists: the names getPolyfills({platform})
\* returns and the names of polyfillModuleNames, each list in any order
PlatformPolyfills == {"/polyfills/p.js", "/polyfills/p2.js"}
GlobalPolyfills == {"/polyfills/g.js"}
PrependCfgs ==
    {Config(platform, global, <<>>, TRUE) :
         platform \in DistinctSeqsUpTo(PlatformPolyfills, MaxPolyfills),
         global \in DistinctSeqsUpTo(GlobalPolyfills, MaxPolyfills)}
PrependDiffs == Diffs({<<>>}, {<<>>}, BOOLEAN)
SpecPrepend == Init(PrependCfgs) /\ [][NextDelta(DeltaCalls, PrependDiffs)]_vars

\* getDelta() calls interleaved with the calculator's 'change' events and end()
SpecEvents == Init(SerialCfgs) /\ [][Next(DeltaCalls, SerialDiffs)]_vars

\* _getInverseDependencies over the Sets of dependents of a path, in every
\* iteration order
InverseDiffs ==
    [modified : {<<>>, <<"/a.js">>}, deleted : {<<>>}, reset : BOOLEAN,
     inverse : {<<>>} \cup
               { << <<"/a.js", deps>>, <<"/e.js", <<>> >> >> :
                     deps \in DistinctSeqsUpTo(Paths, MaxDependents) }]
SpecInverse == Init(SerialCfgs) /\ [][NextDelta(DeltaCalls, InverseDiffs)]_vars

(***************************************************************************)
(* Properties                                                              *)
(***************************************************************************)
Finished(c) == calls[c].pc \in {"returned", "thrown"}
InFlight == {k \in CallIds : comp[k].stage \in Pending}

\* C1: at most one delta computation is in flight at any time: the
\* calculator's getDelta() is not invoked while a computation started by an
\* earlier call has not settled.
C1_AtMostOneInFlight == Cardinality(InFlight) <= 1

\* C2: every getDelta() call that has returned or thrown ran one computation
\* of its own and settled with that computation's outcome, also when the
\* build it first waited for rejected.
C2_OwnComputationOwnOutcome ==
    \A c \in CallIds :
        Finished(c) =>
            /\ calls[c].startSeq > 0
            /\ calls[c].pc = "returned" => comp[c].stage = "resolved"
            /\ calls[c].pc = "thrown" => comp[c].stage = "rejected" /\ calls[c].error = c

\* C3: a failed build does not wedge getDelta(): once the call of a rejected
\* computation has thrown, the token does not hold that computation, and a
\* call made after a rejection that has returned or thrown has started a
\* computation of its own.
C3_FailedBuildNeverWedges ==
    /\ \A k \in CallIds :
           comp[k].stage = "rejected" /\ calls[k].pc = "thrown" => currentBuildPromise # k
    /\ \A c \in CallIds :
           calls[c].issuedAfterReject /\ Finished(c) => calls[c].startSeq > 0

\* The parts of C3 that hold of getDelta(): the token never holds a rejected
\* computation whose call has thrown, it is null when every call has returned
\* or thrown, and under FairSpec (every queued continuation runs, every
\* external step settles) every call returns or throws.
C3_TokenCleared ==
    /\ \A k \in CallIds :
           comp[k].stage = "rejected" /\ calls[k].pc = "thrown" => currentBuildPromise # k
    /\ (microtasks = <<>> /\ \A c \in CallIds : Finished(c)) => currentBuildPromise = 0
Steps ==
    \/ ResumeAfterPrevious \/ ResumeAfterOwn \/ DiffSettles(SerialDiffs) \/ DiffFails
    \/ ReadSettles \/ WrapSettles \/ TransformFails
    \/ ModuleForPathSettles \/ ModuleForPathFails
FairSpec == Init(SerialCfgs) /\ [][NextDelta(DeltaCalls, SerialDiffs)]_vars /\ WF_vars(Steps)
C3_EveryCallSettles == <>[](\A c \in CallIds : Finished(c))

\* C4: computations start in the order their calls arrived: of two calls
\* that have both fetched a diff, the earlier call fetched first.
C4_StartInArrivalOrder ==
    \A a, b \in CallIds :
        a < b /\ calls[a].startSeq > 0 /\ calls[b].startSeq > 0
            => calls[a].startSeq < calls[b].startSeq

\* The computations whose response getDelta() is about to return
\* (result = await this._currentBuildPromise; return result).
Returning == {k \in CallIds : comp[k].stage = "resolved" /\ comp[k].response # NoResponse}
Values(m) == {m[i][2] : i \in 1..Len(m)}
Last(s) == s[Len(s)]
IndexOf(s, x) == CHOOSE i \in 1..Len(s) : s[i] = x

\* C5: in every response `reset` is the diff's reset flag, _getPrepend and
\* _getAppend ran exactly when it is true, pre and post are empty when it is
\* false, and when it is true pre holds the prepend modules and post is not
\* empty, whatever the modified set.
C5_ResetDrivesPrePost ==
    \A k \in Returning :
        LET r == comp[k].response
            d == comp[k].diff
        IN  /\ r.reset = d.reset
            /\ comp[k].ranPrepend = d.reset
            /\ comp[k].ranAppend = d.reset
            /\ ~d.reset => r.pre = <<>> /\ r.post = <<>>
            /\ d.reset => /\ MapKeys(r.pre) = SeqMap(getModuleId, PrependModules(cfg))
                          /\ r.post # <<>>
C5_Witness ==
    \E k \in Returning :
        /\ comp[k].diff.reset /\ comp[k].diff.modified = <<>>
        /\ comp[k].response.pre # <<>> /\ comp[k].response.post # <<>>

\* C6: every deleted path has a tombstone in delta under the id of the path,
\* also when a module of that path is in modified.
C6_DeletedIsTombstone ==
    \A k \in Returning :
        \A p \in Range(comp[k].diff.deleted) :
            /\ MapHas(comp[k].response.delta, getModuleId(p))
            /\ MapGet(comp[k].response.delta, getModuleId(p)) = Null
C6_Witness ==
    \E k \in Returning :
        \E p \in Range(comp[k].diff.deleted) :
            /\ p \in Range(comp[k].diff.modified)
            /\ Len(comp[k].diff.modified) = 2
            /\ MapGet(comp[k].response.delta, getModuleId(p)) = Null

\* C7: a computation with a failed transform is rejected, whatever the other
\* transforms have done; a response holds an entry for every modified module
\* and every prepend module; and a call returns only what a resolved
\* computation of its own produced, and throws when its computation rejected.
C7_NoPartialDelta ==
    /\ \A k \in CallIds : AnyFailed(comp[k].batch) => comp[k].stage = "rejected"
    /\ \A k \in Returning :
           /\ \A m \in Range(comp[k].diff.modified) :
                  MapHas(comp[k].response.delta, getModuleId(m))
           /\ comp[k].diff.reset =>
                  \A m \in Range(PrependModules(cfg)) :
                      MapHas(comp[k].response.pre, getModuleId(m))
    /\ \A c \in CallIds :
           /\ calls[c].pc = "returned" => comp[c].stage = "resolved"
           /\ comp[c].stage = "rejected" /\ Finished(c) => calls[c].pc = "thrown"
C7_Witness ==
    \E k \in CallIds :
        /\ comp[k].stage = "rejected"
        /\ \E i, j \in 1..Len(comp[k].batch) :
               comp[k].batch[i].st = "done" /\ comp[k].batch[j].st = "failed"

\* C8: the map of every entry of pre, post and delta of a response is absent
\* (undefined or null) or an array.
MapIsAbsentOrArray(entry) ==
    entry = Null \/ entry.map.type \in {"undefined", "null", "array"}
C8_MapAbsentOrArray ==
    \A k \in Returning :
        \A entry \in Values(comp[k].response.pre) \cup Values(comp[k].response.post)
                        \cup Values(comp[k].response.delta) :
            MapIsAbsentOrArray(entry)
C8_Witness ==
    \E k \in Returning :
        /\ \E entry \in Values(comp[k].response.delta) :
               entry # Null /\ entry.map = Undefined /\ entry.path = <<"/a.js">>
        /\ \E entry \in Values(comp[k].response.pre) : entry.map = RawMappings
        /\ \E entry \in Values(comp[k].response.post) : entry.map = Null

\* C9: on reset the entries of post of the names of runBeforeMainModule that
\* resolve come in the configured order, and the entry of the entry-point
\* module comes after each of them.
C9_PostFollowsRunBefore ==
    \A k \in Returning :
        comp[k].diff.reset =>
            LET keys == MapKeys(comp[k].response.post)
                ids == SeqMap(getModuleId,
                              SeqConcat(SeqMap(modulesByName, cfg.runBeforeMainModule)))
                entry == getModuleId(getAbsolutePath(cfg.entryFile))
            IN  /\ Range(keys) = Range(ids) \cup {entry}
                /\ \A i, j \in 1..Len(ids) :
                       (i < j /\ ids[i] # ids[j] /\ \A h \in 1..(j - 1) : ids[h] # ids[j])
                           => IndexOf(keys, ids[i]) < IndexOf(keys, ids[j])
                /\ \A i \in 1..Len(ids) :
                       ids[i] # entry => IndexOf(keys, ids[i]) < IndexOf(keys, entry)

\* C10: on reset the last entry of post is the require entry of the
\* entry-point module, whatever runBeforeMainModule lists.
C10_EntryPointLast ==
    \A k \in Returning :
        comp[k].diff.reset =>
            Last(comp[k].response.post)
                = RequireEntry(getModuleId(getAbsolutePath(cfg.entryFile)))

\* C11: the inverseDependencies of a response has, for every [path,
\* dependents] pair of the calculator's map, the property whose key is the
\* decimal string of the id of the path and whose value is the ids of the
\* dependents in the iteration order of the Set, and no other property: the
\* map computed directly in id space.
C11_InverseDependenciesTranslated ==
    \A k \in Returning :
        LET inverse == comp[k].diff.inverse
            output == comp[k].response.inverseDependencies
        IN  /\ \A i \in 1..Len(inverse) :
                   <<ToDecimal(getModuleId(inverse[i][1])),
                     [j \in 1..Len(inverse[i][2]) |-> getModuleId(inverse[i][2][j])]>>
                       \in output
            /\ Cardinality(output) = Len(inverse)
C11_Witness ==
    \E k \in Returning :
        /\ comp[k].diff.inverse = << <<"/a.js", <<"/e.js", "/b.png">> >>, <<"/e.js", <<>> >> >>
        /\ comp[k].response.inverseDependencies
               = { << <<"1", "0">>, <<12, 11>> >>, << <<"1", "2">>, <<>> >> }

\* C12: while the listener is registered (from construction to end()), a
\* 'change' of the calculator adds exactly one 'change' with no argument to
\* what this has emitted, and it starts no computation, fetches no diff,
\* resumes no call and leaves _currentBuildPromise as it is, whether or not
\* a computation is in flight.
C12_ChangePassesThrough ==
    [][signals' # signals =>
          /\ listening => emitted' = Append(emitted, <<>>)
          /\ UNCHANGED <<currentBuildPromise, calls, comp, microtasks, fetchCount>>]_vars
C12_Witness ==
    /\ listening /\ signals = 1 /\ emitted = << <<>> >>
    /\ InFlight # {} /\ currentBuildPromise # 0

\* C13: once end() has been called nothing more is emitted, whatever 'change'
\* events the calculator fires and whatever getDelta() calls are pending;
\* the step of end() detaches the listener and ends the calculator.
C13_NoEmissionAfterEnd ==
    [][/\ calculatorEnded => emitted' = emitted
       /\ calculatorEnded' # calculatorEnded => calculatorEnded' /\ ~listening']_vars
C13_Witness ==
    /\ calculatorEnded /\ ~listening
    /\ signals = 1 /\ emitted = <<>>
    /\ InFlight # {}

\* C14: the keys of delta of a response are exactly the ids of the paths of
\* the modified modules and of the deleted paths; a modified module whose
\* path is not deleted has, under the id of its path, an entry that is not
\* null and carries the module's name and path.
C14_DeltaKeys ==
    \A k \in Returning :
        LET d == comp[k].diff
            delta == comp[k].response.delta
        IN  /\ Range(MapKeys(delta))
                   = {getModuleId(m) : m \in Range(d.modified)}
                       \cup {getModuleId(p) : p \in Range(d.deleted)}
            /\ Len(delta) = Cardinality(Range(MapKeys(delta)))
            /\ \A m \in Range(d.modified) \ Range(d.deleted) :
                   /\ MapHas(delta, getModuleId(m))
                   /\ MapGet(delta, getModuleId(m)) # Null
                   /\ MapGet(delta, getModuleId(m)).name = <<getName(m)>>
                   /\ MapGet(delta, getModuleId(m)).path = <<m>>
C14_Witness ==
    \E k \in Returning :
        /\ comp[k].diff.modified = <<"/b.png", "/a.js">>
        /\ comp[k].diff.deleted = <<"/e.js">>
        /\ MapKeys(comp[k].response.delta) = <<11, 10, 12>>
        /\ MapGet(comp[k].response.delta, 10).name = <<"a">>

\* C15: after every step, every pending computation is the one
\* _currentBuildPromise holds; a step that sets _currentBuildPromise to null
\* does so when the computation it held has settled; and when every call has
\* returned or thrown _currentBuildPromise is null.
C15_TokenScopedToItsCall ==
    [][/\ \A k \in 1..Len(comp') :
              comp'[k].stage \in Pending => currentBuildPromise' = k
       /\ (currentBuildPromise # 0 /\ currentBuildPromise' = 0)
              => comp[currentBuildPromise].stage \notin Pending
       /\ (microtasks' = <<>> /\ \A c \in 1..Len(calls') :
                                    calls'[c].pc \in {"returned", "thrown"})
              => currentBuildPromise' = 0]_vars
\* The part of C15 that is about the exit path alone.
C15_ClearsOnlyOwn ==
    [][(currentBuildPromise # 0 /\ currentBuildPromise' = 0)
          => comp[currentBuildPromise].stage \notin Pending]_vars

\* the ids post has entries for: the modules the names of runBeforeMainModule
\* resolve to, and the entry point
AppendIds ==
    {getModuleId(m) : m \in Range(AppendModules(cfg, getAbsolutePath(cfg.entryFile)))}
\* post has one entry per id of AppendIds and no other, each with the given
\* code, name `require-i`, path `require-i.js` and map null
PostIsRequires(post, Code(_)) ==
    /\ Range(MapKeys(post)) = AppendIds
    /\ Len(post) = Cardinality(AppendIds)
    /\ \A n \in 1..Len(post) :
           LET i == post[n][1]
               entry == post[n][2]
           IN  /\ entry.code = Code(i)
               /\ entry.name = <<"require-">> \o ToDecimal(i)
               /\ entry.path = <<"require-">> \o ToDecimal(i) \o <<".js">>
               /\ entry.map = Null
RequireStatement(i) == <<"require(">> \o ToDecimal(i) \o <<");">>
GuardedRequireStatement(i) == <<";require(">> \o ToDecimal(i) \o <<");">>

\* C16: on reset post has exactly one entry per distinct module that a name
\* of runBeforeMainModule resolves to or that is the entry point; the entry
\* of id i is keyed by i, with code `require(i);`, name `require-i`, path
\* `require-i.js` and no map.
C16_PostEntries ==
    \A k \in Returning :
        comp[k].diff.reset => PostIsRequires(comp[k].response.post, RequireStatement)
\* C16 as the code has it: the code of the entry of id i is `;require(i);`,
\* the statement behind a semicolon.
C16_PostEntriesGuarded ==
    \A k \in Returning :
        comp[k].diff.reset => PostIsRequires(comp[k].response.post, GuardedRequireStatement)
C16_Witness ==
    \E k \in Returning :
        /\ comp[k].diff.reset
        /\ cfg.runBeforeMainModule = <<"a", "a">>
        /\ MapKeys(comp[k].response.post) = <<10, 12>>
        /\ comp[k].response.post[1][2].code = <<";require(", "1", "0", ");">>
        /\ comp[k].response.post[1][2].path = <<"require-", "1", "0", ".js">>

\* pre has one entry per module of `modules`, in that order, each what the
\* transform of that module produces
PreIsTransformOf(pre, modules) ==
    /\ MapKeys(pre) = SeqMap(getModuleId, modules)
    /\ \A n \in 1..Len(pre) :
           \E map \in MapShapes :
               pre[n] = TransformOutput(modules[n], map, cfg.wrapModules)

\* C17: on reset pre holds, in this order, the module system scripts, the
\* polyfills of polyfillModuleNames (the global list) and the polyfills of
\* getPolyfills({platform}), each list in its order, every entry what the
\* transform pipeline makes of the module.
C17_PreOrderGlobalFirst ==
    \A k \in Returning :
        comp[k].diff.reset =>
            PreIsTransformOf(comp[k].response.pre,
                             cfg.moduleSystemDeps \o cfg.polyfillModuleNames \o cfg.getPolyfills)
\* C17 as the code has it: the polyfills of getPolyfills({platform}) come
\* before those of polyfillModuleNames.
C17_PreOrderPlatformFirst ==
    \A k \in Returning :
        comp[k].diff.reset =>
            PreIsTransformOf(comp[k].response.pre,
                             cfg.moduleSystemDeps \o cfg.getPolyfills \o cfg.polyfillModuleNames)
C17_Witness ==
    \E k \in Returning :
        /\ comp[k].diff.reset
        /\ cfg.getPolyfills = <<"/polyfills/p2.js", "/polyfills/p.js">>
        /\ cfg.polyfillModuleNames = <<"/polyfills/g.js">>
        /\ MapKeys(comp[k].response.pre) = <<0, 4, 2, 1>>
        /\ comp[k].response.pre[2][2].map = RawMappings

\* C18: a computation that has gone on to _getAppend or has resolved has no
\* transform running, and when the getDelta() call of a computation has
\* returned or thrown no transform that computation started is running.
C18_JoinsAllTransforms ==
    /\ \A k \in CallIds :
           comp[k].stage \in {"append", "resolved"} => TransformsRunning(comp[k].batch) = {}
    /\ \A c \in CallIds :
           Finished(c) => TransformsRunning(comp[c].batch) = {}
\* The part of C18 that holds: a computation goes on or resolves only when
\* every transform of its batch is done.
C18_SuccessJoins ==
    \A k \in CallIds :
        comp[k].stage \in {"append", "resolved"} => TransformsRunning(comp[k].batch) = {}
\* a transform of a call that has thrown runs while a later call's
\* computation is pending
C18_Overlap ==
    \E c, d \in CallIds :
        /\ c < d /\ calls[c].pc = "thrown" /\ TransformsRunning(comp[c].batch) # {}
        /\ comp[d].stage \in Pending
====
